---- MODULE Spec2Model ----
(***************************************************************************)
(* A model of the event-invitation backend (src/server.py): the file-based *)
(* configuration store with its timestamped backups (FileConfigStorage),   *)
(* the theme file resolution (ThemeManager) and the route handlers that    *)
(* call them.                                                              *)
(*                                                                         *)
(* Representation.                                                         *)
(*  - A string that names a file is kept as the sequence of its            *)
(*    '.'-separated parts: "config.backup.12.json" is                      *)
(*    <<"config","backup","12","json">>.  The representation is lossless   *)
(*    (join the parts with "."), so str.startswith, Path.stem and          *)
(*    str.split(".") are computed exactly on it.                           *)
(*  - A file's content is the sequence of chunks written to it.  json.dump *)
(*    writes the chunks JSONEncoder(indent=2).iterencode yields, one       *)
(*    fp.write per chunk; json.load parses them back.                      *)
(*  - A configuration document is a Python dict: a sequence of <<key,      *)
(*    value>> pairs with distinct keys, in insertion order.                *)
(*  - The store's directory is a function from the names of the files that *)
(*    exist to their content.                                              *)
(***************************************************************************)
EXTENDS Integers, Sequences, FiniteSets, TLC

VARIABLES
    fs,      \* the working directory: [names of existing files -> content]
    now,     \* the last value read from the wall clock, in epoch milliseconds
    last,    \* the last call made: its operation, arguments and outcome
    pre,     \* the working directory as it was when the last call began
    tree,    \* the files under the themes root and around it (never written)
    asset,   \* the last call made to the theme manager, and its outcome
    faults,  \* how many calls an I/O error has struck so far
    sv,      \* each save in progress: where it is in the code, and its locals
    rd,      \* the get in progress: where it is in the code, and its result
    listed,  \* what the last list_backups returned
    slots,   \* the event_id of the last get or save, and what was saved so far
    utc,     \* datetime.utcnow(), in whole seconds, as the token code reads it
    http,    \* the last HTTP request: its route, bearer token, and the response
    sessions, \* the tokens login has issued, and those presented to logout
    themes,  \* what the last list_themes returned
    hist     \* the documents a run of saves has replaced, oldest first

vars ==
    <<fs, now, last, pre, tree, asset, faults, sv, rd, listed, slots, utc, http,
      sessions, themes, hist>>

----------------------------------------------------------------------------
(* Bounds of the model *)

\* The wall clock reads 1..MaxClock milliseconds.  From one reading to the
\* next it either stays within the same millisecond or moves on; by how much
\* it moves on does not matter to the store, which only formats the reading
\* into a name, so the model moves it on by one.
MaxClock == 3

\* At most MaxFaults calls of a run are struck by an I/O error.
MaxFaults == 1

Clock == 1 .. MaxClock

\* int(datetime.now().timestamp() * 1000), the previous reading being `prev`.
Readings(prev) == {prev, prev + 1} \cap Clock

----------------------------------------------------------------------------
(* File names *)

\* self.config_file = Path("config.json")
CONFIG_FILE == <<"config", "json">>

\* A test for the shorter prefix "config." only.
StartsWithConfigOnly(name) ==
    /\ Len(name) >= 2
    /\ name[1] = "config"

\* The literal "config.backup." of restore's startswith test: a string starts
\* with it exactly when its '.'-split has at least three parts, the first two
\* being "config" and "backup" (the third is what follows the last dot of
\* the prefix, possibly empty).
StartsWithBackupPrefix(name) ==
    /\ Len(name) >= 3
    /\ name[1] = "config"
    /\ name[2] = "backup"

Digit == <<"0", "1", "2", "3", "4", "5", "6", "7", "8", "9">>

\* str(n) of a non-negative int, as the f-string formats the timestamp.
RECURSIVE IntToStr(_)
IntToStr(n) ==
    IF n < 10 THEN Digit[n + 1]
    ELSE IntToStr(n \div 10) \o Digit[(n % 10) + 1]

\* backup_path = f"config.backup.{timestamp}.json"
BackupPath(timestamp) == <<"config", "backup", IntToStr(timestamp), "json">>

\* The names save can give a backup within the clock's range.
BackupNames == { BackupPath(t) : t \in Clock }

----------------------------------------------------------------------------
(* The directory *)

Exists(dir, name) == name \in DOMAIN dir

\* open(name, "w") followed by the writes of `content` and close.
WriteFile(dir, name, content) ==
    [n \in (DOMAIN dir) \cup {name} |-> IF n = name THEN content ELSE dir[n]]

\* A move instead of a copy: dst gets src's bytes and src is gone.
ShutilMove(dir, src, dst) ==
    [n \in ((DOMAIN dir) \ {src}) \cup {dst} |->
        IF n = dst THEN dir[src] ELSE dir[n]]

\* shutil.copy(src, dst): dst is created or overwritten with src's bytes.
ShutilCopy(dir, src, dst) == WriteFile(dir, dst, dir[src])

EmptyDir == [n \in {} |-> <<>>]

\* open(file, mode) that truncates or creates the file whatever the mode.
OpenTruncating(dir, file, mode) == WriteFile(dir, file, <<>>)

\* open(file, mode), as to what it does to the directory: "r" leaves it as
\* it is, "w" creates the file or empties it.
Open(dir, file, mode) ==
    IF mode = "w" THEN WriteFile(dir, file, <<>>) ELSE dir

----------------------------------------------------------------------------
(* JSON documents *)

\* The strings that occur in documents, as keys or as values.
Strings == {"title", "date", "A", "B"}

\* The encoder's rendering of a str: the string between double quotes.
Quote(s) == "\"" \o s \o "\""

\* A dict: pairs <<key, value>> with distinct keys, in insertion order.
EmptyDoc == <<>>

DocKeys(doc) == { doc[i][1] : i \in 1 .. Len(doc) }

\* d[key] = value: an existing key keeps its place, a new key goes last.
DictSet(doc, key, value) ==
    IF key \in DocKeys(doc)
    THEN [i \in 1 .. Len(doc) |->
             IF doc[i][1] = key THEN <<key, value>> ELSE doc[i]]
    ELSE Append(doc, <<key, value>>)

\* Python's dict equality: the same keys with the same values, in any order.
DictEq(a, b) == { a[i] : i \in 1 .. Len(a) } = { b[i] : i \in 1 .. Len(b) }

\* The documents the model saves: an empty one, a one-key one and a two-key
\* one (the last makes the encoder emit its item separator).
Docs ==
    { EmptyDoc,
      << <<"title", "A">> >>,
      << <<"title", "B">>, <<"date", "A">> >> }

\* The chunks JSONEncoder(indent=2).iterencode yields for the pairs from the
\* i-th on: key, ": ", value, then ",\n  " before each further pair.
RECURSIVE EncodeItems(_, _)
EncodeItems(doc, i) ==
    IF i > Len(doc) THEN <<>>
    ELSE <<Quote(doc[i][1]), ": ", Quote(doc[i][2])>>
         \o (IF i < Len(doc) THEN <<",\n  ">> ELSE <<>>)
         \o EncodeItems(doc, i + 1)

\* A dump that loses every pair after the first.
JsonDumpFirstPairOnly(doc) ==
    IF Len(doc) = 0 THEN <<"{}">>
    ELSE <<"{", "\n  ">> \o EncodeItems(SubSeq(doc, 1, 1), 1) \o <<"\n", "}">>

\* json.dump(config, f, indent=2): the chunks written, in order.  An empty
\* dict is the single chunk "{}".
JsonDump(doc) ==
    IF Len(doc) = 0 THEN <<"{}">>
    ELSE <<"{", "\n  ">> \o EncodeItems(doc, 1) \o <<"\n", "}">>

\* What json.load returns or raises.
Decoded(doc) == [ok |-> TRUE, doc |-> doc]
JSONDecodeError == [ok |-> FALSE, doc |-> EmptyDoc]

IsStringLiteral(chunk) == \E s \in Strings : chunk = Quote(s)
Unquote(chunk) == CHOOSE s \in Strings : chunk = Quote(s)

\* The decoder skips whitespace between tokens; the separators keep theirs.
IsWhitespace(chunk) == chunk \in {"\n  ", "\n"}
Tokens(content) == SelectSeq(content, LAMBDA c : ~IsWhitespace(c))

\* The decoder's object loop from the token at i, which must be a key: key,
\* colon, value, then either the closing brace (which must end the text) or a
\* comma and the next pair.  A repeated key keeps its last value.
RECURSIVE ParseMembers(_, _, _)
ParseMembers(t, i, acc) ==
    IF i + 3 > Len(t) THEN JSONDecodeError
    ELSE IF ~IsStringLiteral(t[i]) \/ t[i + 1] # ": " \/ ~IsStringLiteral(t[i + 2])
    THEN JSONDecodeError
    ELSE LET acc2 == DictSet(acc, Unquote(t[i]), Unquote(t[i + 2]))
         IN  IF t[i + 3] = "}"
             THEN (IF i + 3 = Len(t) THEN Decoded(acc2) ELSE JSONDecodeError)
             ELSE IF t[i + 3] = ",\n  " THEN ParseMembers(t, i + 4, acc2)
             ELSE JSONDecodeError

\* json.load(f) on a file holding `content`.
JsonLoad(content) ==
    LET t == Tokens(content)
    IN  IF t = <<"{}">> THEN Decoded(EmptyDoc)
        ELSE IF Len(t) >= 1 /\ t[1] = "{" THEN ParseMembers(t, 2, EmptyDoc)
        ELSE JSONDecodeError

----------------------------------------------------------------------------
(* I/O failures *)

\* Where an I/O error (disk full, permission denied) strikes a call, and how
\* many chunks of the file being written had reached the disk by then.
\*   backup_open / backup_write    in save's shutil.copy to the backup
\*   config_open / config_write    in save's open(..., "w") and json.dump
\*   restore_open / restore_write  in restore's shutil.copy to config.json
NoFault == [at |-> "none", cut |-> 0]

Prefix(content, k) == SubSeq(content, 1, k)

----------------------------------------------------------------------------
(* FileConfigStorage *)

\* A get without the test for the file: an empty document when there is none.
GetOutcomeUnchecked(dir) ==
    IF ~Exists(dir, CONFIG_FILE)
    THEN [status |-> "ok", doc |-> EmptyDoc]
    ELSE LET loaded == JsonLoad(dir[CONFIG_FILE])
         IN  IF loaded.ok
             THEN [status |-> "ok", doc |-> loaded.doc]
             ELSE [status |-> "JSONDecodeError", doc |-> EmptyDoc]

\* get(): 404 when config.json does not exist, else json.load of the file.
GetOutcome(dir) ==
    IF ~Exists(dir, CONFIG_FILE)
    THEN [status |-> "NotFound", doc |-> EmptyDoc]
    ELSE LET loaded == JsonLoad(dir[CONFIG_FILE])
         IN  IF loaded.ok
             THEN [status |-> "ok", doc |-> loaded.doc]
             ELSE [status |-> "JSONDecodeError", doc |-> EmptyDoc]

\* Whether `fault` can strike save(config) on `dir`: the backup copy runs only
\* when config.json exists, and a write fails before its last chunk.
SaveFaultApplies(dir, config, fault) ==
    \/ fault.at = "backup_open" /\ fault.cut = 0 /\ Exists(dir, CONFIG_FILE)
    \/ /\ fault.at = "backup_write"
       /\ Exists(dir, CONFIG_FILE)
       /\ fault.cut < Len(dir[CONFIG_FILE])
    \/ fault.at = "config_open" /\ fault.cut = 0
    \/ fault.at = "config_write" /\ fault.cut < Len(JsonDump(config))

\* save(config) with its two steps exchanged: the document is written first
\* and the backup copy is taken of what was written.
SaveOutcomeWriteFirst(dir, config, timestamp, fault) ==
    LET backup_path == BackupPath(timestamp)
        written == WriteFile(dir, CONFIG_FILE, JsonDump(config))
    IN  [dir |-> IF Exists(dir, CONFIG_FILE)
                 THEN ShutilCopy(written, CONFIG_FILE, backup_path)
                 ELSE written,
         status |-> "ok", name |-> backup_path]

\* save(config) at clock reading `timestamp`: copy config.json, when it
\* exists, to config.backup.<timestamp>.json; then open config.json for
\* writing (which truncates it) and dump the document into it; return the
\* backup path, whether or not a copy was made.
SaveOutcome(dir, config, timestamp, fault) ==
    LET backup_path == BackupPath(timestamp)
        had == Exists(dir, CONFIG_FILE)
        copied == IF had THEN ShutilCopy(dir, CONFIG_FILE, backup_path) ELSE dir
    IN  IF had /\ fault.at = "backup_open"
        THEN [dir |-> dir, status |-> "StorageFailure", name |-> <<>>]
        ELSE IF had /\ fault.at = "backup_write"
        THEN [dir |-> WriteFile(dir, backup_path,
                                Prefix(dir[CONFIG_FILE], fault.cut)),
              status |-> "StorageFailure", name |-> <<>>]
        ELSE IF fault.at = "config_open"
        THEN [dir |-> copied, status |-> "StorageFailure", name |-> <<>>]
        ELSE IF fault.at = "config_write"
        THEN [dir |-> WriteFile(copied, CONFIG_FILE,
                                Prefix(JsonDump(config), fault.cut)),
              status |-> "StorageFailure", name |-> <<>>]
        ELSE [dir |-> WriteFile(copied, CONFIG_FILE, JsonDump(config)),
              status |-> "ok", name |-> backup_path]

\* Whether restore(backup_filename) gets as far as its pre-restore save, which
\* is where it reads the clock.
RestoreReachesSave(dir, backup_filename) ==
    /\ StartsWithBackupPrefix(backup_filename)
    /\ Exists(dir, backup_filename)
    /\ GetOutcome(dir).status = "ok"

\* restore(backup_filename) that makes its pre-restore save only when there
\* is a current document to save, and otherwise goes on to the copy.
RestoreOutcomeLenient(dir, backup_filename, timestamp, fault) ==
    IF ~StartsWithBackupPrefix(backup_filename)
    THEN [dir |-> dir, status |-> "InvalidArgument"]
    ELSE IF ~Exists(dir, backup_filename)
    THEN [dir |-> dir, status |-> "NotFound"]
    ELSE LET current == GetOutcome(dir)
             saved == IF current.status = "ok"
                      THEN SaveOutcome(dir, current.doc, timestamp, fault).dir
                      ELSE dir
         IN  [dir |-> ShutilCopy(saved, backup_filename, CONFIG_FILE),
              status |-> "ok"]

\* restore(backup_filename): 400 unless the name starts with
\* "config.backup."; 404 unless the file exists; then
\* self.save(self.get(), "pre-restore"), then shutil.copy of the backup over
\* config.json.  The copy reads the backup as the save left it.
RestoreOutcome(dir, backup_filename, timestamp, fault) ==
    IF ~StartsWithBackupPrefix(backup_filename)
    THEN [dir |-> dir, status |-> "InvalidArgument"]
    ELSE IF ~Exists(dir, backup_filename)
    THEN [dir |-> dir, status |-> "NotFound"]
    ELSE LET current == GetOutcome(dir)
         IN  IF current.status # "ok"
             THEN [dir |-> dir, status |-> current.status]
             ELSE LET saved == SaveOutcome(dir, current.doc, timestamp, fault)
                  IN  IF saved.status # "ok"
                      THEN [dir |-> saved.dir, status |-> saved.status]
                      ELSE IF fault.at = "restore_open"
                      THEN [dir |-> saved.dir, status |-> "StorageFailure"]
                      ELSE IF fault.at = "restore_write"
                      THEN [dir |-> WriteFile(saved.dir, CONFIG_FILE,
                                       Prefix(saved.dir[backup_filename],
                                              fault.cut)),
                            status |-> "StorageFailure"]
                      ELSE [dir |-> ShutilCopy(saved.dir, backup_filename,
                                               CONFIG_FILE),
                            status |-> "ok"]

\* Whether `fault` can strike restore(backup_filename) on `dir`.
RestoreFaultApplies(dir, backup_filename, timestamp, fault) ==
    /\ RestoreReachesSave(dir, backup_filename)
    /\ \/ SaveFaultApplies(dir, GetOutcome(dir).doc, fault)
       \/ fault.at = "restore_open" /\ fault.cut = 0
       \/ /\ fault.at = "restore_write"
          /\ fault.cut <
               Len(SaveOutcome(dir, GetOutcome(dir).doc, timestamp,
                               NoFault).dir[backup_filename])

----------------------------------------------------------------------------
(* Files the store did not write *)

\* "config.backup.notes.txt": starts with the backup prefix but is no name
\* save produces.
PREFIXED_FOREIGN == <<"config", "backup", "notes", "txt">>

\* "config.backup.old": starts with the prefix; never on disk.
PREFIXED_MISSING == <<"config", "backup", "old">>

\* "notaconfigbackup.json"
NOT_A_BACKUP == <<"notaconfigbackup", "json">>

\* "../../etc/passwd", split at its dots
TRAVERSAL == <<"", "", "/", "", "/etc/passwd">>

ForeignNames == {PREFIXED_FOREIGN, NOT_A_BACKUP, TRAVERSAL}

\* What the foreign files hold: not JSON.
FOREIGN_CONTENT == <<"root:x:0:0">>

ForeignDir == [n \in ForeignNames |-> FOREIGN_CONTENT]

\* The arguments the model passes to restore.
RestoreArgs ==
    BackupNames \cup ForeignNames \cup {PREFIXED_MISSING, CONFIG_FILE}

\* The backup artifacts of a directory: the files named as save names them.
Backups(dir) == { n \in DOMAIN dir : n \in BackupNames }

----------------------------------------------------------------------------
(* Paths and the theme files *)

\* A pathlib.Path: whether it is absolute, and its segments.  pathlib keeps
\* ".." segments as they are.
RelPath(parts) == [abs |-> FALSE, parts |-> parts]
AbsPath(parts) == [abs |-> TRUE, parts |-> parts]

\* a / b: an absolute right operand replaces the left one.
Join(a, b) ==
    IF b.abs THEN b ELSE [abs |-> a.abs, parts |-> a.parts \o b.parts]

\* The server's working directory, as segments from the root.
CWD == <<"srv">>

\* self.themes_dir = Path("themes")
THEMES_DIR == RelPath(<<"themes">>)

\* The files that may exist, as segments from the root: a theme with its
\* manifest, page and stylesheet, a directory without a manifest, the
\* environment file next to the server, and a system file.
BEACH_MANIFEST == <<"srv", "themes", "beach", "theme.json">>
BEACH_INDEX == <<"srv", "themes", "beach", "index.html">>
BEACH_STYLE == <<"srv", "themes", "beach", "assets", "style.css">>
PLAIN_NOTES == <<"srv", "themes", "plain", "notes.txt">>
DOT_ENV == <<"srv", ".env">>
ETC_PASSWD == <<"etc", "passwd">>

AllFiles ==
    {BEACH_MANIFEST, BEACH_INDEX, BEACH_STYLE, PLAIN_NOTES, DOT_ENV, ETC_PASSWD}

IsFile(t, p) == p \in t

\* A directory exists when a file lies below it; the root and the working
\* directory always exist.
IsDirectory(t, p) ==
    \/ p = <<>>
    \/ p = CWD
    \/ \E f \in t : Len(f) > Len(p) /\ SubSeq(f, 1, Len(p)) = p

\* The kernel's path walk from `cur`: each segment is looked up in a
\* directory, ".." steps to the parent (the root is its own parent).
RECURSIVE Walk(_, _, _, _)
Walk(t, cur, parts, i) ==
    IF i > Len(parts)
    THEN [ok |-> IsFile(t, cur) \/ IsDirectory(t, cur), path |-> cur]
    ELSE IF ~IsDirectory(t, cur) THEN [ok |-> FALSE, path |-> cur]
    ELSE IF parts[i] = ".."
    THEN Walk(t, IF cur = <<>> THEN cur ELSE SubSeq(cur, 1, Len(cur) - 1),
              parts, i + 1)
    ELSE Walk(t, Append(cur, parts[i]), parts, i + 1)

\* os.stat(path): the file or directory the path leads to, if any.
Stat(t, path) == Walk(t, IF path.abs THEN <<>> ELSE CWD, path.parts, 1)

\* Path.exists()
PathExists(t, path) == Stat(t, path).ok

NoPath == RelPath(<<>>)

\* get_theme_file_path(theme_id, filename): 404 when themes/<theme_id> does
\* not exist, 404 when themes/<theme_id>/<filename> does not exist, else
\* that path, as joined.
GetThemeFilePath(t, theme_id, filename) ==
    LET theme_dir == Join(THEMES_DIR, RelPath(<<theme_id>>))
        file_path == Join(theme_dir, filename)
    IN  IF ~PathExists(t, theme_dir)
        THEN [status |-> "NotFound", path |-> NoPath]
        ELSE IF ~PathExists(t, file_path)
        THEN [status |-> "NotFound", path |-> NoPath]
        ELSE [status |-> "ok", path |-> file_path]

AssetCall(op, theme_id, filename, status, path) ==
    [op |-> op, theme_id |-> theme_id, filename |-> filename,
     status |-> status, path |-> path]

NoAssetCall == AssetCall("none", "", NoPath, "ok", NoPath)

\* The theme ids and the relative paths the model requests.
ThemeIds == {"beach", "plain", "ghost", ".."}

AssetPaths ==
    { RelPath(<<"index.html">>),
      RelPath(<<"assets", "style.css">>),
      RelPath(<<"missing.css">>),
      RelPath(<<"assets", "..", "index.html">>),
      RelPath(<<"..", "plain", "notes.txt">>),
      RelPath(<<"..", "..", ".env">>),
      AbsPath(<<"etc", "passwd">>) }

----------------------------------------------------------------------------
(* Calls in progress *)

\* The requests that may be inside save at the same time.
Savers == {"s1", "s2"}

\* A save: the statement it is at, its arguments and locals, how many chunks
\* it has written through its file object, and (for the record) whether a
\* whole current document existed when it was entered.
IdleSaver ==
    [pc |-> "idle", config |-> EmptyDoc, timestamp |-> 0, offset |-> 0,
     over |-> FALSE]

\* A get: the statement it is at, what it returned or raised, and (for the
\* record) whether it read the file while a save was replacing a whole
\* document.
IdleReader == [pc |-> "idle", status |-> "ok", doc |-> EmptyDoc, during |-> FALSE]

\* The event_id arguments: the default of get and save, another event, and
\* the one restore passes to save.
EventIds == {"default", "other", "pre-restore"}

\* No get or save has been made: nothing is saved under any event_id.
NoSlots == [event_id |-> "default", saved |-> {}, doc |-> EmptyDoc]

\* No save has been made: nothing was replaced, and no clock reading of a
\* save is on record (the clock starts at 1).
NoHistory == [replaced |-> <<>>, strict |-> TRUE, ts |-> 0]

-----------------------------------------------------------------------------
(* Tokens *)

\* settings.ACCESS_TOKEN_EXPIRE_HOURS
ACCESS_TOKEN_EXPIRE_HOURS == 24

\* timedelta(hours=settings.ACCESS_TOKEN_EXPIRE_HOURS), in seconds.
TokenLifetime == ACCESS_TOKEN_EXPIRE_HOURS * 3600

\* The clock is watched for MaxUtc seconds from the start and for as long
\* again one token lifetime later.
MaxUtc == 1

\* At most MaxLogins logins of a run succeed.
MaxLogins == 1

\* The seconds at which requests arrive.  jwt writes exp, and compares it
\* with the clock, in whole seconds (timegm of utctimetuple).
UtcInstants == { i + k * TokenLifetime : i \in 0 .. MaxUtc, k \in 0 .. 1 }

\* settings.SECRET_KEY, and a key that is not it.
SECRET_KEY == "SECRET_KEY"
OTHER_KEY == "OTHER_KEY"

\* users_db: password hashes are kept as the password they were made from,
\* which is all pwd_context.verify can tell about them.
UsersDb ==
    [u \in {"admin"} |->
        [username |-> "admin", email |-> "admin@example.com",
         hashed_password |-> <<"bcrypt", "admin">>, role |-> "admin",
         full_name |-> "Administrator"]]

Usernames == {"admin", "guest"}
Passwords == {"admin", "guess"}

\* pwd_context.verify(plain_password, hashed_password)
VerifyPassword(plain_password, hashed_password) ==
    hashed_password = <<"bcrypt", plain_password>>

\* A JWT payload: the claims it has (`has`) and their values; the value of a
\* claim it does not have is not used.
Claims(has, username, email, role, exp) ==
    [has |-> has, username |-> username, email |-> email, role |-> role,
     exp |-> exp]

NoClaims == Claims({}, "", "", "", 0)

\* A bearer token: the key its signature was made with, and its payload.
Token(key, claims) == [key |-> key, claims |-> claims]

\* create_access_token without the role.
CreateAccessTokenNoRole(data, utcnow) ==
    Token(SECRET_KEY,
          Claims({"username", "email", "exp"}, data.username, data.email, "",
                 utcnow + TokenLifetime))

\* create_access_token(data): data's claims and exp = utcnow() + 24 hours,
\* signed with SECRET_KEY.
CreateAccessToken(data, utcnow) ==
    Token(SECRET_KEY,
          Claims({"username", "email", "role", "exp"}, data.username,
                 data.email, data.role, utcnow + TokenLifetime))

\* An expiry test that already fails in the second exp names.
SignatureExpiredAtExp(exp, utcnow) == exp <= utcnow

\* jwt's expiry test: ExpiredSignatureError when exp < now.
SignatureExpired(exp, utcnow) == exp < utcnow

\* What a dependency hands on or raises.
Verdict(status, claims) == [status |-> status, claims |-> claims]

\* verify_token without the expiry test.
VerifyTokenNoExpiry(token, utcnow) ==
    IF token.key # SECRET_KEY
    THEN Verdict("Unauthorized", NoClaims)
    ELSE IF "username" \notin token.claims.has
    THEN Verdict("Unauthorized", NoClaims)
    ELSE Verdict("ok", token.claims)

\* verify_token: jwt.decode raises JWTError on a signature not made with
\* SECRET_KEY and on an exp that has passed (both 401); a payload without
\* username is 401 too; otherwise the payload is returned.
VerifyToken(token, utcnow) ==
    IF token.key # SECRET_KEY
    THEN Verdict("Unauthorized", NoClaims)
    ELSE IF "exp" \in token.claims.has /\ SignatureExpired(token.claims.exp, utcnow)
    THEN Verdict("Unauthorized", NoClaims)
    ELSE IF "username" \notin token.claims.has
    THEN Verdict("Unauthorized", NoClaims)
    ELSE Verdict("ok", token.claims)

\* user.get("role"): None when the payload has no role.
RoleOf(claims) == IF "role" \in claims.has THEN claims.role ELSE "None"

\* require_admin that lets every verified user through.
RequireAdminAnyRole(user) == Verdict("ok", user)

\* require_admin(user): 403 unless user.get("role") == "admin".
RequireAdmin(user) ==
    IF RoleOf(user) # "admin"
    THEN Verdict("Forbidden", NoClaims)
    ELSE Verdict("ok", user)

\* The bearer tokens a client may present: made with either key, with or
\* without each claim the code reads, for either role, expiring at the
\* start or one lifetime later.
PresentedTokens ==
    { Token(key, Claims(has, "admin", "admin@example.com", role, exp)) :
        key \in {SECRET_KEY, OTHER_KEY},
        has \in { {"username", "email", "role", "exp"}, {"email", "role", "exp"},
                  {"username", "email", "exp"}, {"username", "email", "role"} },
        role \in {"admin", "user"},
        exp \in {0, TokenLifetime} }

\* An HTTP request and its response: the route, the username and password
\* of a login (else <<>>), the Authorization header (<<>> or <<token>>), the
\* second it arrived, the status, the payload the dependency handed to the
\* route, and the token in the response, if any.
Request(route, form, credentials, at, status, claims, token) ==
    [route |-> route, form |-> form, credentials |-> credentials, at |-> at,
     status |-> status, claims |-> claims, token |-> token]

NoRequest == Request("none", <<>>, <<>>, 0, "ok", NoClaims, <<>>)

NoSessions == [issued |-> {}, loggedout |-> {}]

----------------------------------------------------------------------------
(* The calls, each one whole *)

Call(op, status, doc, name, ts) ==
    [op |-> op, status |-> status, doc |-> doc, name |-> name, ts |-> ts]

NoCall == Call("none", "ok", EmptyDoc, <<>>, 0)

\* The server starts in a directory that holds no configuration yet; files
\* the store never wrote may or may not lie around.
Init ==
    /\ fs \in {EmptyDir, ForeignDir}
    /\ now = 1
    /\ last = NoCall
    /\ pre = fs
    /\ tree = {}
    /\ asset = NoAssetCall
    /\ faults = 0
    /\ sv = [p \in Savers |-> IdleSaver]
    /\ rd = IdleReader
    /\ listed = <<>>
    /\ slots = NoSlots
    /\ utc = 0
    /\ http = NoRequest
    /\ sessions = NoSessions
    /\ themes = <<>>
    /\ hist = NoHistory

\* config_storage.get()
Get ==
    LET out == GetOutcome(fs)
    IN  /\ last' = Call("get", out.status, out.doc, <<>>, 0)
        /\ pre' = fs
        /\ fs' = IF Exists(fs, CONFIG_FILE)
                 THEN Open(fs, CONFIG_FILE, "r")
                 ELSE fs
        /\ UNCHANGED <<now, tree, asset, faults, sv, rd, listed, slots, utc,
                       http, sessions, themes, hist>>

\* config_storage.save(config), the clock reading `timestamp`
Save(config, timestamp) ==
    LET out == SaveOutcome(fs, config, timestamp, NoFault)
    IN  /\ timestamp \in Readings(now)
        /\ now' = timestamp
        /\ fs' = out.dir
        /\ last' = Call("save", out.status, config, out.name, timestamp)
        /\ pre' = fs
        /\ UNCHANGED <<tree, asset, faults, sv, rd, listed, slots, utc, http,
                       sessions, themes, hist>>

\* config_storage.restore(backup_filename); the clock is read by the
\* pre-restore save, when the call gets that far.
Restore(backup_filename, timestamp) ==
    LET out == RestoreOutcome(fs, backup_filename, timestamp, NoFault)
        reached == RestoreReachesSave(fs, backup_filename)
    IN  /\ timestamp \in Readings(now)
        /\ reached \/ timestamp = now
        /\ now' = timestamp
        /\ fs' = out.dir
        /\ last' = Call("restore", out.status, EmptyDoc, backup_filename,
                        IF reached THEN timestamp ELSE 0)
        /\ pre' = fs
        /\ UNCHANGED <<tree, asset, faults, sv, rd, listed, slots, utc, http,
                       sessions, themes, hist>>

Next ==
    \/ Get
    \/ \E config \in Docs, timestamp \in Clock : Save(config, timestamp)
    \/ \E backup_filename \in RestoreArgs, timestamp \in Clock :
           Restore(backup_filename, timestamp)

Spec == Init /\ [][Next]_vars

----------------------------------------------------------------------------
(* Properties of the store, call by call.  `pre` is the directory when the  *)
(* last call began, `fs` the directory it left and `last` the call.         *)

\* C1 (restore reversibility): a successful restore(F), made when a current
\* document C exists and F is a backup holding B, leaves config.json holding
\* B, so that get() returns B's document, and leaves a backup holding C.
C1_RestoreReversible ==
    ( /\ last.op = "restore"
      /\ last.status = "ok"
      /\ last.name \in Backups(pre)
      /\ Exists(pre, CONFIG_FILE) )
    => /\ fs[CONFIG_FILE] = pre[last.name]
       /\ GetOutcome(fs).status = "ok"
       /\ DictEq(GetOutcome(fs).doc, JsonLoad(pre[last.name]).doc)
       /\ \E b \in Backups(fs) : fs[b] = pre[CONFIG_FILE]

\* C2 (backup before overwrite): a successful save made when a current
\* document D1 exists adds exactly one backup artifact, and that artifact
\* holds D1.
C2_BackupBeforeOverwrite ==
    ( /\ last.op = "save"
      /\ last.status = "ok"
      /\ Exists(pre, CONFIG_FILE) )
    => /\ Cardinality(Backups(fs)) = Cardinality(Backups(pre)) + 1
       /\ \E b \in Backups(fs) \ Backups(pre) : fs[b] = pre[CONFIG_FILE]

\* C6 (round trip): after a successful save(D), get() succeeds and returns a
\* document equal to D.
C6_RoundTrip ==
    (last.op = "save" /\ last.status = "ok")
    => /\ GetOutcome(fs).status = "ok"
       /\ DictEq(GetOutcome(fs).doc, last.doc)

\* C6's case: a two-key document saved over an existing one.
C6_Witness ==
    /\ last.op = "save"
    /\ last.status = "ok"
    /\ Len(last.doc) = 2
    /\ Exists(pre, CONFIG_FILE)

\* C7 (only the store's own names): restore rejects with InvalidArgument
\* every argument that is not a name save produces, and so changes nothing.
C7_OnlyOwnNamesAccepted ==
    (last.op = "restore" /\ last.name \notin BackupNames)
    => /\ last.status = "InvalidArgument"
       /\ fs = pre

\* C8 (malformed filename rejection): restore of "../../etc/passwd", of
\* "notaconfigbackup.json" or of any other name that does not start with
\* "config.backup." fails with InvalidArgument and leaves the current
\* document and the backups as they were, whether or not the file exists.
C8_MalformedRejected ==
    (last.op = "restore" /\ last.name \in {TRAVERSAL, NOT_A_BACKUP, CONFIG_FILE})
    => /\ last.status = "InvalidArgument"
       /\ fs = pre

\* C8's case: the traversal name is passed while that file and a current
\* document both exist (so the copy would go through, were it not rejected).
C8_Witness ==
    /\ last.op = "restore"
    /\ last.name = TRAVERSAL
    /\ Exists(pre, TRAVERSAL)
    /\ GetOutcome(pre).status = "ok"
    /\ Backups(pre) # {}

\* C9 (save's return value): with a prior document, the name returned is that
\* of a backup on disk holding the prior document; with no prior document,
\* save makes no backup and returns none.
C9_SaveReturnsItsBackup ==
    (last.op = "save" /\ last.status = "ok")
    => IF Exists(pre, CONFIG_FILE)
       THEN /\ last.name \in Backups(fs)
            /\ fs[last.name] = pre[CONFIG_FILE]
       ELSE /\ Backups(fs) = Backups(pre)
            /\ last.name = <<>>

\* C10 (backups are immutable and never deleted): every backup that existed
\* when a call began exists when it ends, with the same content.
C10_BackupsImmutable ==
    \A b \in Backups(pre) : b \in Backups(fs) /\ fs[b] = pre[b]

----------------------------------------------------------------------------
(* The theme manager, over every set of files that may exist *)

InitTheme ==
    /\ fs = EmptyDir
    /\ now = 1
    /\ last = NoCall
    /\ pre = fs
    /\ tree \in SUBSET AllFiles
    /\ asset = NoAssetCall
    /\ faults = 0
    /\ sv = [p \in Savers |-> IdleSaver]
    /\ rd = IdleReader
    /\ listed = <<>>
    /\ slots = NoSlots
    /\ utc = 0
    /\ http = NoRequest
    /\ sessions = NoSessions
    /\ themes = <<>>
    /\ hist = NoHistory

\* GET /themes/{theme_id}/{file_path:path}: the path get_theme_file_path
\* returns is served; its HTTPException is raised again as it is.
ServeThemeFile(theme_id, file_path) ==
    LET out == GetThemeFilePath(tree, theme_id, file_path)
    IN  /\ asset' = AssetCall("serve_theme_file", theme_id, file_path,
                              out.status, out.path)
        /\ UNCHANGED <<fs, now, last, pre, tree, faults, sv, rd, listed,
                       slots, utc, http, sessions, themes, hist>>

NextTheme ==
    \E theme_id \in ThemeIds, file_path \in AssetPaths :
        ServeThemeFile(theme_id, file_path)

SpecTheme == InitTheme /\ [][NextTheme]_vars

\* The directory of a theme, as segments from the root.
ThemeRoot(theme_id) == CWD \o <<"themes", theme_id>>

StrictlyInside(p, root) ==
    /\ Len(p) > Len(root)
    /\ SubSeq(p, 1, Len(root)) = root

\* C3 (theme path containment): whatever the theme id and the relative path,
\* a path that get_theme_file_path returns leads to a file strictly inside
\* themes/<theme_id>/.
C3_AssetInsideTheme ==
    (asset.op = "serve_theme_file" /\ asset.status = "ok")
    => StrictlyInside(Stat(tree, asset.path).path, ThemeRoot(asset.theme_id))

----------------------------------------------------------------------------
(* The store when I/O errors strike *)

FaultPoints ==
    {"backup_open", "backup_write", "config_open", "config_write",
     "restore_open", "restore_write"}

\* No file of the model is longer than the longest dump.
LongestDump ==
    CHOOSE n \in { Len(JsonDump(d)) : d \in Docs } :
        \A d \in Docs : Len(JsonDump(d)) <= n

Faults == [at : FaultPoints, cut : 0 .. LongestDump]

\* save(config) struck by an I/O error: the exception reaches the caller.
SaveFails(config, timestamp, fault) ==
    LET out == SaveOutcome(fs, config, timestamp, fault)
    IN  /\ faults < MaxFaults
        /\ timestamp \in Readings(now)
        /\ SaveFaultApplies(fs, config, fault)
        /\ faults' = faults + 1
        /\ now' = timestamp
        /\ fs' = out.dir
        /\ last' = Call("save", out.status, config, out.name, timestamp)
        /\ pre' = fs
        /\ UNCHANGED <<tree, asset, sv, rd, listed, slots, utc, http,
                       sessions, themes, hist>>

\* restore(backup_filename) struck by an I/O error, in its pre-restore save
\* or in its copy of the backup over config.json.
RestoreFails(backup_filename, timestamp, fault) ==
    LET out == RestoreOutcome(fs, backup_filename, timestamp, fault)
    IN  /\ faults < MaxFaults
        /\ timestamp \in Readings(now)
        /\ RestoreFaultApplies(fs, backup_filename, timestamp, fault)
        /\ faults' = faults + 1
        /\ now' = timestamp
        /\ fs' = out.dir
        /\ last' = Call("restore", out.status, EmptyDoc, backup_filename,
                        timestamp)
        /\ pre' = fs
        /\ UNCHANGED <<tree, asset, sv, rd, listed, slots, utc, http,
                       sessions, themes, hist>>

\* The store alone in its directory.
InitFault ==
    /\ fs = EmptyDir
    /\ now = 1
    /\ last = NoCall
    /\ pre = fs
    /\ tree = {}
    /\ asset = NoAssetCall
    /\ faults = 0
    /\ sv = [p \in Savers |-> IdleSaver]
    /\ rd = IdleReader
    /\ listed = <<>>
    /\ slots = NoSlots
    /\ utc = 0
    /\ http = NoRequest
    /\ sessions = NoSessions
    /\ themes = <<>>
    /\ hist = NoHistory

NextFault ==
    \/ Next
    \/ \E config \in Docs, timestamp \in Clock, fault \in Faults :
           SaveFails(config, timestamp, fault)
    \/ \E backup_filename \in RestoreArgs, timestamp \in Clock,
          fault \in Faults :
           RestoreFails(backup_filename, timestamp, fault)

SpecFault == InitFault /\ [][NextFault]_vars

\* C5 (failure leaves the document intact): when a save or a restore fails,
\* at whichever step, a current document that existed before the call is
\* still there afterwards and get() returns the same document.
C5_FailureLeavesDocument ==
    ( /\ last.op \in {"save", "restore"}
      /\ last.status # "ok"
      /\ GetOutcome(pre).status = "ok" )
    => /\ GetOutcome(fs).status = "ok"
       /\ DictEq(GetOutcome(fs).doc, GetOutcome(pre).doc)

----------------------------------------------------------------------------
(* save and get, statement by statement, side by side *)

\* A write of `data` through a file object whose position is `offset`: what
\* lies at those positions is overwritten, what lies beyond is kept, and a
\* gap left by another opener's truncation reads as NUL.
WriteAt(content, offset, data) ==
    LET end == offset + Len(data)
        n == IF Len(content) > end THEN Len(content) ELSE end
    IN  [i \in 1 .. n |->
            IF i > offset /\ i <= end THEN data[i - offset]
            ELSE IF i <= Len(content) THEN content[i]
            ELSE "\\0"]

InitConc ==
    /\ fs = EmptyDir
    /\ now = 1
    /\ last = NoCall
    /\ pre = fs
    /\ tree = {}
    /\ asset = NoAssetCall
    /\ faults = 0
    /\ sv = [p \in Savers |-> IdleSaver]
    /\ rd = IdleReader
    /\ listed = <<>>
    /\ slots = NoSlots
    /\ utc = 0
    /\ http = NoRequest
    /\ sessions = NoSessions
    /\ themes = <<>>
    /\ hist = NoHistory

\* A request enters save(config).
SaveCall(p, config) ==
    /\ sv[p].pc = "idle"
    /\ sv' = [sv EXCEPT ![p] = [pc |-> "stamp", config |-> config,
                                timestamp |-> 0, offset |-> 0,
                                over |-> GetOutcome(fs).status = "ok"]]
    /\ UNCHANGED <<fs, now, last, pre, tree, asset, faults, rd, listed, slots,
                   utc, http, sessions, themes, hist>>

\* timestamp = int(datetime.now().timestamp() * 1000)
SaveStamp(p, timestamp) ==
    /\ sv[p].pc = "stamp"
    /\ timestamp \in Readings(now)
    /\ now' = timestamp
    /\ sv' = [sv EXCEPT ![p].pc = "copy", ![p].timestamp = timestamp]
    /\ UNCHANGED <<fs, last, pre, tree, asset, faults, rd, listed, slots, utc,
                   http, sessions, themes, hist>>

\* if self.config_file.exists(): shutil.copy(self.config_file, backup_path)
SaveCopy(p) ==
    /\ sv[p].pc = "copy"
    /\ fs' = IF Exists(fs, CONFIG_FILE)
             THEN ShutilCopy(fs, CONFIG_FILE, BackupPath(sv[p].timestamp))
             ELSE fs
    /\ sv' = [sv EXCEPT ![p].pc = "open"]
    /\ UNCHANGED <<now, last, pre, tree, asset, faults, rd, listed, slots,
                   utc, http, sessions, themes, hist>>

\* open(self.config_file, "w"): the file is created or cut to length zero.
SaveOpen(p) ==
    /\ sv[p].pc = "open"
    /\ fs' = WriteFile(fs, CONFIG_FILE, <<>>)
    /\ sv' = [sv EXCEPT ![p].pc = "dump", ![p].offset = 0]
    /\ UNCHANGED <<now, last, pre, tree, asset, faults, rd, listed, slots,
                   utc, http, sessions, themes, hist>>

\* json.dump(config, f, indent=2): the next chunk reaches the file.  (Chunks
\* that the file object hands over together are consecutive steps.)
SaveDump(p) ==
    LET dump == JsonDump(sv[p].config)
        k == sv[p].offset
    IN  /\ sv[p].pc = "dump"
        /\ k < Len(dump)
        /\ fs' = WriteFile(fs, CONFIG_FILE,
                           WriteAt(fs[CONFIG_FILE], k, <<dump[k + 1]>>))
        /\ sv' = [sv EXCEPT ![p].offset = k + 1]
        /\ UNCHANGED <<now, last, pre, tree, asset, faults, rd, listed, slots,
                       utc, http, sessions, themes, hist>>

\* The with block ends and save returns backup_path.
SaveReturn(p) ==
    /\ sv[p].pc = "dump"
    /\ sv[p].offset = Len(JsonDump(sv[p].config))
    /\ sv' = [sv EXCEPT ![p].pc = "idle"]
    /\ UNCHANGED <<fs, now, last, pre, tree, asset, faults, rd, listed, slots,
                   utc, http, sessions, themes, hist>>

\* A request enters get().
GetCall ==
    /\ rd.pc \in {"idle", "done"}
    /\ rd' = [IdleReader EXCEPT !.pc = "check"]
    /\ UNCHANGED <<fs, now, last, pre, tree, asset, faults, sv, listed, slots,
                   utc, http, sessions, themes, hist>>

\* if not self.config_file.exists(): raise HTTPException(404)
GetCheck ==
    /\ rd.pc = "check"
    /\ rd' = IF Exists(fs, CONFIG_FILE)
             THEN [rd EXCEPT !.pc = "read"]
             ELSE [rd EXCEPT !.pc = "done", !.status = "NotFound"]
    /\ UNCHANGED <<fs, now, last, pre, tree, asset, faults, sv, listed, slots,
                   utc, http, sessions, themes, hist>>

\* with open(self.config_file, "r") as f: return json.load(f)
GetRead ==
    LET loaded == JsonLoad(fs[CONFIG_FILE])
    IN  /\ rd.pc = "read"
        /\ rd' = [pc |-> "done",
                  status |-> IF loaded.ok THEN "ok" ELSE "JSONDecodeError",
                  doc |-> loaded.doc,
                  during |-> \E p \in Savers :
                                sv[p].pc # "idle" /\ sv[p].over]
        /\ UNCHANGED <<fs, now, last, pre, tree, asset, faults, sv, listed,
                       slots, utc, http, sessions, themes, hist>>

SaveStep(p) ==
    \/ \E config \in Docs : SaveCall(p, config)
    \/ \E timestamp \in Clock : SaveStamp(p, timestamp)
    \/ SaveCopy(p)
    \/ SaveOpen(p)
    \/ SaveDump(p)
    \/ SaveReturn(p)

\* One request saving while another reads.
NextConc ==
    \/ SaveStep("s1")
    \/ GetCall
    \/ GetCheck
    \/ GetRead

SpecConc == InitConc /\ [][NextConc]_vars

\* C4 (atomic replacement): a get that reads while a save(D2) is replacing an
\* existing document D1 returns a whole document, D1 or D2; it never reads an
\* empty or half-written file.
C4_ReaderSeesWholeDocument ==
    (rd.pc = "done" /\ rd.during)
    => /\ rd.status = "ok"
       /\ rd.doc \in Docs

-----------------------------------------------------------------------------
(* Two saves at once *)

\* The saver has made its one call and returned from it.
Returned(p) == sv[p].pc = "idle" /\ sv[p].timestamp # 0

\* A document D0 is current and no save has been made yet.
InitRace ==
    /\ fs \in { WriteFile(EmptyDir, CONFIG_FILE, JsonDump(d0)) : d0 \in Docs }
    /\ now = 1
    /\ last = NoCall
    /\ pre = fs
    /\ tree = {}
    /\ asset = NoAssetCall
    /\ faults = 0
    /\ sv = [p \in Savers |-> IdleSaver]
    /\ rd = IdleReader
    /\ listed = <<>>
    /\ slots = NoSlots
    /\ utc = 0
    /\ http = NoRequest
    /\ sessions = NoSessions
    /\ themes = <<>>
    /\ hist = NoHistory

\* Each of the two requests makes one save.
RaceStep(p) ==
    \/ \E config \in Docs : sv[p].timestamp = 0 /\ SaveCall(p, config)
    \/ \E timestamp \in Clock : SaveStamp(p, timestamp)
    \/ SaveCopy(p)
    \/ SaveOpen(p)
    \/ SaveDump(p)
    \/ SaveReturn(p)

NextRace == \E p \in Savers : RaceStep(p)

SpecRace == InitRace /\ [][NextRace]_vars

\* C11 (concurrent saves): when two saves S1(D1) and S2(D2) made at the same
\* time over an existing document D0 have both returned, there are two
\* backups and the current document is exactly D1 or exactly D2.
C11_ConcurrentSaves ==
    (\A p \in Savers : Returned(p))
    => /\ Cardinality(Backups(fs)) = 2
       /\ \E p \in Savers : fs[CONFIG_FILE] = JsonDump(sv[p].config)

-----------------------------------------------------------------------------
(* Listing the backups *)

\* The most files a directory holds before the first call.
MaxListed == 3

\* Path(".").glob("config.backup.*.json"): the name starts with
\* "config.backup." and ends with ".json", and the two do not overlap, so
\* its '.'-split has "config", "backup", at least one part for the star, and
\* "json".
GlobMatches(name) ==
    /\ Len(name) >= 4
    /\ name[1] = "config"
    /\ name[2] = "backup"
    /\ name[Len(name)] = "json"

\* file.stem.split(".")[-1]: the part before the final ".json".
StemLastPart(name) == name[Len(name) - 1]

\* A Python int is unbounded: it is kept as its decimal digits, most
\* significant first, without leading zeros.
RECURSIVE Digits(_)
Digits(n) == IF n < 10 THEN <<n>> ELSE Append(Digits(n \div 10), n % 10)

\* The decimal text of an int given by its digits.
RECURSIVE DigitsToStr(_)
DigitsToStr(ds) ==
    IF Len(ds) = 0 THEN ""
    ELSE DigitsToStr(SubSeq(ds, 1, Len(ds) - 1)) \o Digit[ds[Len(ds)] + 1]

\* a < b for ints given by their digits.
IntLess(a, b) ==
    \/ Len(a) < Len(b)
    \/ /\ Len(a) = Len(b)
       /\ \E i \in 1 .. Len(a) :
              /\ a[i] < b[i]
              /\ \A j \in 1 .. (i - 1) : a[j] = b[j]

\* Timestamps of files that save did not write: a year-10000 instant (17
\* digits), an instant past what localtime can break down (21 digits), and
\* one past the platform's time_t (23 digits).
AFTER_YEAR_9999 == <<9, 9, 9, 9, 9, 9, 9, 9, 9, 9, 9, 9, 9, 9, 9, 9, 9>>
AFTER_LOCALTIME == <<9, 9, 9, 9, 9, 9, 9, 9, 9, 9, 9, 9, 9, 9, 9, 9, 9, 9, 9, 9, 9>>
AFTER_TIME_T ==
    <<9, 9, 9, 9, 9, 9, 9, 9, 9, 9, 9, 9, 9, 9, 9, 9, 9, 9, 9, 9, 9, 9, 9>>

\* The ints whose spellings occur in the model's file names.
ListedInts ==
    { Digits(t) : t \in Clock } \cup {AFTER_YEAR_9999, AFTER_LOCALTIME, AFTER_TIME_T}

\* int(text): the texts int() accepts, among those of the model, and their
\* values: plain decimal digits, and the same with leading zeros (int also
\* accepts a sign, surrounding blanks and single underscores).  Any other
\* text raises ValueError.
IntSpellings ==
    { [text |-> DigitsToStr(v), value |-> v] : v \in ListedInts }
    \cup { [text |-> "0" \o DigitsToStr(v), value |-> v] : v \in ListedInts }

PyInt(text) ==
    IF \E e \in IntSpellings : e.text = text
    THEN [ok |-> TRUE, value |-> (CHOOSE e \in IntSpellings : e.text = text).value]
    ELSE [ok |-> FALSE, value |-> <<>>]


\* datetime.fromtimestamp(timestamp / 1000) of a non-negative int.  The
\* instant is rendered up to the end of year 9999; from year 10000 on
\* datetime raises ValueError ("year ... is out of range"); where the C
\* library's localtime gives up it raises OSError; past the range of time_t
\* it raises OverflowError.  (The first limit moves by the hours of the local
\* time zone, the other two are those of a 64-bit Linux.)
YEAR_10000 == <<2, 5, 3, 4, 0, 2, 3, 0, 0, 8, 0, 0, 0, 0, 0>>
LOCALTIME_LIMIT ==
    <<6, 7, 7, 6, 8, 0, 3, 6, 1, 9, 1, 6, 7, 6, 7, 9, 6, 0, 0, 0>>
TIME_T_LIMIT ==
    <<9, 2, 2, 3, 3, 7, 2, 0, 3, 6, 8, 5, 4, 7, 7, 5, 8, 0, 8, 0, 0, 0>>

FromTimestamp(value) ==
    IF IntLess(value, YEAR_10000) THEN "ok"
    ELSE IF IntLess(value, LOCALTIME_LIMIT) THEN "ValueError"
    ELSE IF IntLess(value, TIME_T_LIMIT) THEN "OSError"
    ELSE "OverflowError"

\* One pass of the loop body over `name`: the entry appended, or the
\* exception raised.  ValueError is the one the loop catches.
ListEntry(name) ==
    LET parsed == PyInt(StemLastPart(name))
        raised == IF parsed.ok THEN FromTimestamp(parsed.value)
                  ELSE "ValueError"
    IN  [status |-> raised, filename |-> name, timestamp |-> parsed.value]

\* sorted(backups, key=timestamp, reverse=True) in ascending order instead.
RECURSIVE SortedAscending(_)
SortedAscending(entries) ==
    IF entries = {} THEN { <<>> }
    ELSE UNION { { <<e>> \o rest : rest \in SortedAscending(entries \ {e}) } :
                 e \in { x \in entries :
                           \A y \in entries :
                               ~IntLess(y.timestamp, x.timestamp) } }

\* sorted(backups, key=lambda x: x["timestamp"], reverse=True): the greatest
\* timestamp first.  Entries with equal timestamps stay in the order the
\* directory scan gave them, which is any order.
RECURSIVE SortedDescending(_)
SortedDescending(entries) ==
    IF entries = {} THEN { <<>> }
    ELSE UNION { { <<e>> \o rest : rest \in SortedDescending(entries \ {e}) } :
                 e \in { x \in entries :
                           \A y \in entries :
                               ~IntLess(x.timestamp, y.timestamp) } }

\* list_backups(): every outcome the directory allows.  An exception other
\* than ValueError leaves the loop and the call; otherwise the entries that
\* were appended are returned sorted.
ListBackupsOutcomes(dir) ==
    LET passes == { ListEntry(n) : n \in { m \in DOMAIN dir : GlobMatches(m) } }
        uncaught == { e \in passes : e.status \notin {"ok", "ValueError"} }
        backups == { [filename |-> e.filename, timestamp |-> e.timestamp] :
                     e \in { x \in passes : x.status = "ok" } }
    IN  IF uncaught # {}
        THEN { [status |-> e.status, entries |-> <<>>] : e \in uncaught }
        ELSE { [status |-> "ok", entries |-> s] : s \in SortedDescending(backups) }


\* Files that match the glob and that save did not write: a timestamp
\* spelled with a leading zero, one that is no number, and three beyond the
\* dates datetime renders.
PADDED_BACKUP == <<"config", "backup", "0" \o IntToStr(1), "json">>
UNNUMBERED_BACKUP == <<"config", "backup", "old", "json">>
LATE_BACKUPS ==
    { <<"config", "backup", DigitsToStr(v), "json">> :
      v \in {AFTER_YEAR_9999, AFTER_LOCALTIME, AFTER_TIME_T} }

ListNames == BackupNames \cup {PADDED_BACKUP, UNNUMBERED_BACKUP} \cup LATE_BACKUPS

\* Any few of these files are in the directory, and no current document.
InitList ==
    /\ fs \in { [n \in names |-> JsonDump(EmptyDoc)] :
                names \in { S \in SUBSET ListNames : Cardinality(S) <= MaxListed } }
    /\ now = 1
    /\ last = NoCall
    /\ pre = fs
    /\ tree = {}
    /\ asset = NoAssetCall
    /\ faults = 0
    /\ sv = [p \in Savers |-> IdleSaver]
    /\ rd = IdleReader
    /\ listed = <<>>
    /\ slots = NoSlots
    /\ utc = 0
    /\ http = NoRequest
    /\ sessions = NoSessions
    /\ themes = <<>>
    /\ hist = NoHistory

ListBackups ==
    \E out \in ListBackupsOutcomes(fs) :
        /\ listed' = out.entries
        /\ last' = Call("list_backups", out.status, EmptyDoc, <<>>, 0)
        /\ pre' = fs
        /\ UNCHANGED <<fs, now, tree, asset, faults, sv, rd, slots, utc, http,
                       sessions, themes, hist>>

\* Saves and listings in any order.
NextList ==
    \/ \E config \in Docs, timestamp \in Clock : Save(config, timestamp)
    \/ ListBackups

SpecList == InitList /\ [][NextList]_vars

\* The last call was list_backups.
Listing == last.op = "list_backups"

\* The glob-matching files of the directory whose timestamp int() parses.
Parsable(dir) ==
    { n \in DOMAIN dir : GlobMatches(n) /\ PyInt(StemLastPart(n)).ok }

C13_MalformedNamesSkipped ==
    Listing
    => /\ last.status = "ok"
       /\ { listed[i].filename : i \in 1 .. Len(listed) } = Parsable(pre)
       /\ Len(listed) = Cardinality(Parsable(pre))

-----------------------------------------------------------------------------
(* The event_id argument *)

InitSlots ==
    /\ fs = EmptyDir
    /\ now = 1
    /\ last = NoCall
    /\ pre = fs
    /\ tree = {}
    /\ asset = NoAssetCall
    /\ faults = 0
    /\ sv = [p \in Savers |-> IdleSaver]
    /\ rd = IdleReader
    /\ listed = <<>>
    /\ slots = NoSlots
    /\ utc = 0
    /\ http = NoRequest
    /\ sessions = NoSessions
    /\ themes = <<>>
    /\ hist = NoHistory

\* get(event_id): the argument is not used.
GetSlot(event_id) ==
    LET out == GetOutcome(fs)
    IN  /\ last' = Call("get", out.status, out.doc, <<>>, 0)
        /\ pre' = fs
        /\ slots' = [slots EXCEPT !.event_id = event_id]
        /\ UNCHANGED <<fs, now, tree, asset, faults, sv, rd, listed, utc,
                       http, sessions, themes, hist>>

\* save(config, event_id): the argument is not used.
SaveSlot(config, event_id, timestamp) ==
    LET out == SaveOutcome(fs, config, timestamp, NoFault)
    IN  /\ timestamp \in Readings(now)
        /\ now' = timestamp
        /\ fs' = out.dir
        /\ last' = Call("save", out.status, config, out.name, timestamp)
        /\ pre' = fs
        /\ slots' = [event_id |-> event_id,
                     saved |-> slots.saved \cup {event_id},
                     doc |-> config]
        /\ UNCHANGED <<tree, asset, faults, sv, rd, listed, utc, http,
                       sessions, themes, hist>>

NextSlots ==
    \/ \E event_id \in EventIds : GetSlot(event_id)
    \/ \E config \in Docs, event_id \in EventIds, timestamp \in Clock :
           SaveSlot(config, event_id, timestamp)

SpecSlots == InitSlots /\ [][NextSlots]_vars

\* C14 as stated (one document per slot): get(slot) fails with NotFound
\* exactly when nothing has been saved for that slot; in particular, after a
\* save to one slot, get of another slot still fails with NotFound.
C14_NotFoundPerSlot ==
    last.op = "get"
    => (last.status = "NotFound" <=> slots.event_id \notin slots.saved)

\* C14 (one document for all slots): get fails with NotFound exactly when
\* nothing has been saved under any event_id; after a save, get returns the
\* document saved last, whatever event_id either call was given.
C14_NotFoundUntilSaved ==
    last.op = "get"
    => /\ last.status = "NotFound" <=> slots.saved = {}
       /\ slots.saved # {} => last.status = "ok" /\ DictEq(last.doc, slots.doc)

\* A get of an event_id nothing was saved under, after a save under another.
C14_Witness ==
    /\ last.op = "get"
    /\ slots.saved # {}
    /\ slots.event_id \notin slots.saved
    /\ last.status = "ok"

-----------------------------------------------------------------------------
(* The HTTP routes *)

\* The document and the backup name requests carry.
HttpDocs == { d \in Docs : Len(d) = 1 }
HttpRestoreArgs == {BackupPath(1)}

\* The Authorization headers a client may send: none, a token of its own
\* making, or one that login issued.
Headers(tokens) == { <<>> } \cup { <<t>> : t \in tokens \cup sessions.issued }

\* A few of the tokens a client may make: a good admin's, an expired one, one
\* signed with another key, one for another role, one without username.
HttpTokens ==
    LET all == {"username", "email", "role", "exp"}
        Made(key, has, role, exp) ==
            Token(key, Claims(has, "admin", "admin@example.com", role, exp))
    IN  { Made(SECRET_KEY, all, "admin", TokenLifetime),
          Made(SECRET_KEY, all, "admin", 0),
          Made(OTHER_KEY, all, "admin", TokenLifetime),
          Made(SECRET_KEY, all, "user", TokenLifetime),
          Made(SECRET_KEY, all \ {"username"}, "admin", TokenLifetime) }

\* Depends(security), Depends(verify_token): HTTPBearer refuses a request
\* without a bearer token before verify_token runs.
Authenticate(credentials, utcnow) ==
    IF credentials = <<>>
    THEN Verdict("NotAuthenticated", NoClaims)
    ELSE VerifyToken(credentials[1], utcnow)

\* Depends(require_admin)
AuthenticateAdmin(credentials, utcnow) ==
    LET user == Authenticate(credentials, utcnow)
    IN  IF user.status = "ok" THEN RequireAdmin(user.claims) ELSE user

\* login(request): 401 for an unknown username or a wrong password, else a
\* token with the stored username, email and role.
LoginOutcome(username, password, utcnow) ==
    IF \/ username \notin DOMAIN UsersDb
       \/ ~VerifyPassword(password, UsersDb[username].hashed_password)
    THEN [status |-> "Unauthorized", token |-> <<>>]
    ELSE [status |-> "ok",
          token |-> <<CreateAccessToken(UsersDb[username], utcnow)>>]

InitHttp ==
    /\ fs = EmptyDir
    /\ now = 1
    /\ last = NoCall
    /\ pre = fs
    /\ tree = {}
    /\ asset = NoAssetCall
    /\ faults = 0
    /\ sv = [p \in Savers |-> IdleSaver]
    /\ rd = IdleReader
    /\ listed = <<>>
    /\ slots = NoSlots
    /\ utc = 0
    /\ http = NoRequest
    /\ sessions = NoSessions
    /\ themes = <<>>
    /\ hist = NoHistory

\* Time passes between requests.
Tick ==
    /\ \E u \in UtcInstants : u > utc /\ utc' = u
    /\ UNCHANGED <<fs, now, last, pre, tree, asset, faults, sv, rd, listed,
                   slots, http, sessions, themes, hist>>

\* POST /api/login
Login(username, password) ==
    LET out == LoginOutcome(username, password, utc)
    IN  /\ out.status = "ok" => Cardinality(sessions.issued) < MaxLogins
        /\ http' = Request("login", <<username, password>>, <<>>, utc,
                           out.status, NoClaims, out.token)
        /\ sessions' = [sessions EXCEPT
                            !.issued = @ \cup { out.token[i] : i \in DOMAIN out.token }]
        /\ pre' = fs
        /\ UNCHANGED <<fs, now, last, tree, asset, faults, sv, rd, listed,
                       slots, utc, themes, hist>>

\* POST /api/logout: nothing is kept of it (the set is for the record).
Logout(credentials) ==
    LET user == Authenticate(credentials, utc)
    IN  /\ http' = Request("logout", <<>>, credentials, utc, user.status, user.claims, <<>>)
        /\ sessions' = IF user.status = "ok"
                       THEN [sessions EXCEPT
                                !.loggedout =
                                    @ \cup ({credentials[1]} \cap sessions.issued)]
                       ELSE sessions
        /\ pre' = fs
        /\ UNCHANGED <<fs, now, last, tree, asset, faults, sv, rd, listed,
                       slots, utc, themes, hist>>

\* GET /api/verify
VerifyAuth(credentials) ==
    LET user == Authenticate(credentials, utc)
    IN  /\ http' = Request("verify", <<>>, credentials, utc, user.status, user.claims, <<>>)
        /\ pre' = fs
        /\ UNCHANGED <<fs, now, last, tree, asset, faults, sv, rd, listed,
                       slots, utc, sessions, themes, hist>>

\* POST /api/config: config_storage.save(request.config) for an admin.
UpdateConfig(credentials, config, timestamp) ==
    LET user == AuthenticateAdmin(credentials, utc)
        out == SaveOutcome(fs, config, timestamp, NoFault)
    IN  /\ pre' = fs
        /\ IF user.status = "ok"
           THEN /\ timestamp \in Readings(now)
                /\ now' = timestamp
                /\ fs' = out.dir
                /\ http' = Request("update_config", <<>>, credentials, utc, out.status,
                                   user.claims, <<>>)
           ELSE /\ timestamp = now
                /\ UNCHANGED <<fs, now, themes, hist>>
                /\ http' = Request("update_config", <<>>, credentials, utc, user.status,
                                   user.claims, <<>>)
        /\ UNCHANGED <<last, tree, asset, faults, sv, rd, listed, slots, utc,
                       sessions, themes, hist>>

\* POST /api/config/restore/{filename}: config_storage.restore(filename) for
\* an admin.
RestoreBackup(credentials, filename, timestamp) ==
    LET user == AuthenticateAdmin(credentials, utc)
        out == RestoreOutcome(fs, filename, timestamp, NoFault)
        reached == RestoreReachesSave(fs, filename)
    IN  /\ pre' = fs
        /\ IF user.status = "ok"
           THEN /\ timestamp \in Readings(now)
                /\ reached \/ timestamp = now
                /\ now' = timestamp
                /\ fs' = out.dir
                /\ http' = Request("restore_backup", <<>>, credentials, utc, out.status,
                                   user.claims, <<>>)
           ELSE /\ timestamp = now
                /\ UNCHANGED <<fs, now, themes, hist>>
                /\ http' = Request("restore_backup", <<>>, credentials, utc, user.status,
                                   user.claims, <<>>)
        /\ UNCHANGED <<last, tree, asset, faults, sv, rd, listed, slots, utc,
                       sessions, themes, hist>>

\* GET /api/config/backups: config_storage.list_backups() for an admin.
ListBackupsRoute(credentials) ==
    LET user == AuthenticateAdmin(credentials, utc)
    IN  /\ pre' = fs
        /\ \E out \in ListBackupsOutcomes(fs) :
               IF user.status = "ok"
               THEN /\ listed' = out.entries
                    /\ http' = Request("list_backups", <<>>, credentials, utc, out.status,
                                       user.claims, <<>>)
               ELSE /\ listed' = listed
                    /\ http' = Request("list_backups", <<>>, credentials, utc,
                                       user.status, user.claims, <<>>)
        /\ UNCHANGED <<fs, now, last, tree, asset, faults, sv, rd, slots, utc,
                       sessions, themes, hist>>

\* The routes that read tokens and write none of the files.
NextAuth ==
    \/ Tick
    \/ \E username \in Usernames, password \in Passwords : Login(username, password)
    \/ \E credentials \in Headers(PresentedTokens) : VerifyAuth(credentials)
    \/ \E credentials \in Headers(PresentedTokens) : ListBackupsRoute(credentials)

SpecAuth == InitHttp /\ [][NextAuth]_vars

\* The bearer token of the last request.
Bearer == http.credentials[1]

\* C15 (verify and requireRole): verify fails with Unauthorized whenever the
\* token's signature is invalid, its expiry is in the past or it has no
\* username claim, and returns the token's claims otherwise; requireRole
\* fails with Forbidden whenever the role of verified claims is not "admin"
\* and succeeds otherwise.
C15_VerifyThenRole ==
    /\ (http.route = "verify" /\ http.credentials # <<>>)
       => IF \/ Bearer.key # SECRET_KEY
             \/ "exp" \in Bearer.claims.has /\ Bearer.claims.exp < http.at
             \/ "username" \notin Bearer.claims.has
          THEN http.status = "Unauthorized"
          ELSE http.status = "ok" /\ http.claims = Bearer.claims
    /\ (/\ http.route = "list_backups"
        /\ http.credentials # <<>>
        /\ VerifyToken(Bearer, http.at).status = "ok")
       => IF "role" \in Bearer.claims.has /\ Bearer.claims.role = "admin"
          THEN http.status = "ok" /\ http.claims = Bearer.claims
          ELSE http.status = "Forbidden"

\* A token that is refused for its expiry alone.
C15_Witness ==
    /\ http.route = "verify"
    /\ http.credentials # <<>>
    /\ Bearer.key = SECRET_KEY
    /\ Bearer.claims.has = {"username", "email", "role", "exp"}
    /\ Bearer.claims.exp < http.at
    /\ http.status = "Unauthorized"

\* C19 (login): login fails with Unauthorized and issues no token when the
\* username is not in users_db or the password does not match; when it
\* succeeds the token carries the stored username, email and role, verify
\* returns them, and requireRole admin succeeds exactly when the stored role
\* is "admin".
C19_LoginIssuesStoredClaims ==
    http.route = "login"
    => LET username == http.form[1]
           password == http.form[2]
       IN  IF username \notin DOMAIN UsersDb
           THEN http.status = "Unauthorized" /\ http.token = <<>>
           ELSE LET user == UsersDb[username]
                IN  IF user.hashed_password # <<"bcrypt", password>>
                    THEN http.status = "Unauthorized" /\ http.token = <<>>
                    ELSE /\ http.status = "ok"
                         /\ Len(http.token) = 1
                         /\ http.token[1] \in sessions.issued
                         /\ LET verified == VerifyToken(http.token[1], http.at)
                            IN  /\ verified.status = "ok"
                                /\ verified.claims.username = user.username
                                /\ verified.claims.email = user.email
                                /\ RoleOf(verified.claims) = user.role
                                /\ RequireAdmin(verified.claims).status = "ok"
                                   <=> user.role = "admin"

\* A login that succeeded.
C19_Witness ==
    /\ http.route = "login"
    /\ http.status = "ok"
    /\ http.token # <<>>

\* The routes that write the files, and those that issue and read tokens.
NextHttp ==
    \/ Tick
    \/ \E username \in Usernames, password \in Passwords : Login(username, password)
    \/ \E credentials \in Headers(HttpTokens) : Logout(credentials)
    \/ \E credentials \in Headers(HttpTokens), config \in HttpDocs,
          timestamp \in Clock :
           UpdateConfig(credentials, config, timestamp)
    \/ \E credentials \in Headers(HttpTokens), filename \in HttpRestoreArgs,
          timestamp \in Clock :
           RestoreBackup(credentials, filename, timestamp)

SpecHttp == InitHttp /\ [][NextHttp]_vars


\* The routes that answer only to a verified token.
TokenRoutes == {"logout", "verify", "update_config", "restore_backup", "list_backups"}

\* C16 (no revocation): whatever requests were made since login issued a
\* token (a logout with the token, saves, restores), verify accepts the token
\* in every second up to the one its exp names and rejects it in every
\* second after; a request carrying it is refused as Unauthorized only after
\* that second.
C16_NoRevocation ==
    /\ \A t \in sessions.issued :
           /\ utc <= t.claims.exp => VerifyToken(t, utc).status = "ok"
           /\ utc > t.claims.exp => VerifyToken(t, utc).status = "Unauthorized"
    /\ (/\ http.route \in TokenRoutes
        /\ http.credentials # <<>>
        /\ Bearer \in sessions.issued)
       => (http.status = "Unauthorized" <=> http.at > Bearer.claims.exp)

\* A save made with a token after a logout with the same token.
C16_Witness ==
    /\ http.route = "update_config"
    /\ http.credentials # <<>>
    /\ Bearer \in sessions.loggedout
    /\ http.status = "ok"
    /\ fs # pre

\* The current document and the backups of a directory.
Documents(dir) ==
    [n \in { m \in DOMAIN dir : m = CONFIG_FILE \/ StartsWithBackupPrefix(m) } |-> dir[n]]

\* C20 (writes need an admin): the current document or the backups change
\* only in a POST /api/config or POST /api/config/restore/{filename} whose
\* token verify accepted and whose role is "admin"; such a request without a
\* token, or with a token that is invalid, expired or of another role,
\* leaves them as they were.
C20_WritesNeedAdmin ==
    /\ Documents(fs) # Documents(pre)
       => /\ http.route \in {"update_config", "restore_backup"}
          /\ http.credentials # <<>>
          /\ VerifyToken(Bearer, http.at).status = "ok"
          /\ RoleOf(Bearer.claims) = "admin"
    /\ (/\ http.route \in {"update_config", "restore_backup"}
        /\ \/ http.credentials = <<>>
           \/ Bearer.key # SECRET_KEY
           \/ "exp" \in Bearer.claims.has /\ Bearer.claims.exp < http.at
           \/ "username" \notin Bearer.claims.has
           \/ RoleOf(Bearer.claims) # "admin")
       => /\ fs = pre
          /\ http.status \in {"NotAuthenticated", "Unauthorized", "Forbidden"}

\* A restore by an admin that changed the current document's directory.
C20_Witness ==
    /\ http.route = "restore_backup"
    /\ http.status = "ok"
    /\ Documents(fs) # Documents(pre)
    /\ RoleOf(Bearer.claims) = "admin"

-----------------------------------------------------------------------------
(* Listing the themes *)

\* Two more files that may exist: one directly under the themes root, and a
\* theme.json deeper than a theme's own directory.
THEMES_README == <<"srv", "themes", "README">>
NESTED_MANIFEST == <<"srv", "themes", "plain", "old", "theme.json">>

ListedFiles == AllFiles \cup {THEMES_README, NESTED_MANIFEST}

\* self.themes_dir.iterdir(): the names directly under the themes root.
ThemeDirEntries(t) ==
    LET root == CWD \o THEMES_DIR.parts
    IN  { f[Len(root) + 1] :
          f \in { g \in t : Len(g) > Len(root) /\ SubSeq(g, 1, Len(root)) = root } }

\* json.load of a manifest: the theme data that file holds.
ThemeData(theme_json_path) == [manifest |-> theme_json_path.parts]

\* The entries of the themes root that list_themes appends: directories in
\* which theme.json exists.
ThemesFound(t) ==
    { e \in ThemeDirEntries(t) :
        LET theme_dir == Join(THEMES_DIR, RelPath(<<e>>))
        IN  /\ IsDirectory(t, Stat(t, theme_dir).path)
            /\ PathExists(t, Join(theme_dir, RelPath(<<"theme.json">>))) }

\* The orders in which a directory scan may give the members of a set.
RECURSIVE ScanOrders(_)
ScanOrders(S) ==
    IF S = {} THEN { <<>> }
    ELSE UNION { { <<e>> \o rest : rest \in ScanOrders(S \ {e}) } : e \in S }

\* A list_themes that gives up on a directory without theme.json.
ListThemesStrict(t) ==
    IF ~PathExists(t, THEMES_DIR)
    THEN { [status |-> "ok", themes |-> <<>>] }
    ELSE IF \E e \in ThemeDirEntries(t) : e \notin ThemesFound(t)
    THEN { [status |-> "NotFound", themes |-> <<>>] }
    ELSE { [status |-> "ok",
            themes |-> [i \in DOMAIN order |->
                           ThemeData(Join(Join(THEMES_DIR, RelPath(<<order[i]>>)),
                                          RelPath(<<"theme.json">>)))]] :
           order \in ScanOrders(ThemesFound(t)) }

\* list_themes(): [] when the themes root does not exist, else the theme
\* data of every directory under it that has a theme.json, in the order of
\* the scan.
ListThemesOutcomes(t) ==
    IF ~PathExists(t, THEMES_DIR)
    THEN { [status |-> "ok", themes |-> <<>>] }
    ELSE { [status |-> "ok",
            themes |-> [i \in DOMAIN order |->
                           ThemeData(Join(Join(THEMES_DIR, RelPath(<<order[i]>>)),
                                          RelPath(<<"theme.json">>)))]] :
           order \in ScanOrders(ThemesFound(t)) }

InitThemeList ==
    /\ fs = EmptyDir
    /\ now = 1
    /\ last = NoCall
    /\ pre = fs
    /\ tree \in SUBSET ListedFiles
    /\ asset = NoAssetCall
    /\ faults = 0
    /\ sv = [p \in Savers |-> IdleSaver]
    /\ rd = IdleReader
    /\ listed = <<>>
    /\ slots = NoSlots
    /\ utc = 0
    /\ http = NoRequest
    /\ sessions = NoSessions
    /\ themes = <<>>
    /\ hist = NoHistory

ListThemes ==
    \E out \in ListThemesOutcomes(tree) :
        /\ themes' = out.themes
        /\ asset' = AssetCall("list_themes", "", NoPath, out.status, NoPath)
        /\ UNCHANGED <<fs, now, last, pre, tree, faults, sv, rd, listed, slots,
                       utc, http, sessions, hist>>

NextThemeList ==
    \/ ListThemes
    \/ \E theme_id \in ThemeIds, file_path \in AssetPaths :
           ServeThemeFile(theme_id, file_path)

SpecThemeList == InitThemeList /\ [][NextThemeList]_vars

\* The ids of the themes the tree holds a manifest file for: the
\* directories directly under the themes root with a file theme.json.
WithManifest(t) ==
    { f[3] : f \in { g \in t : /\ Len(g) = 4
                                /\ SubSeq(g, 1, 2) = <<"srv", "themes">>
                                /\ g[4] = "theme.json" } }

\* C17 (missing manifest skip): whatever lies under the themes root,
\* list_themes returns normally, with exactly one manifest for each
\* directory directly under the root that holds a manifest file and nothing
\* for the others; without a themes root it returns the empty list.
C17_MissingManifestSkipped ==
    asset.op = "list_themes"
    => /\ asset.status = "ok"
       /\ { themes[i].manifest : i \in 1 .. Len(themes) }
          = { <<"themes", e, "theme.json">> : e \in WithManifest(tree) }
       /\ Len(themes) = Cardinality(WithManifest(tree))
       /\ (\A f \in tree : Len(f) < 3 \/ SubSeq(f, 1, 2) # <<"srv", "themes">>)
          => themes = <<>>

\* A listing of one theme beside a directory that has no manifest of its
\* own and a plain file.
C17_Witness ==
    /\ asset.op = "list_themes"
    /\ {BEACH_MANIFEST, PLAIN_NOTES, NESTED_MANIFEST, THEMES_README} \subseteq tree
    /\ Len(themes) = 1

-----------------------------------------------------------------------------
(* A crash inside save *)

\* The process is killed while save is at any of its statements; what the
\* statements before wrote stays on disk.  The record keeps the statement
\* the save had reached; the run ends here.
Crash(p) ==
    /\ sv[p].pc \notin {"idle", "crashed"}
    /\ sv' = [sv EXCEPT ![p].pc = "crashed"]
    /\ last' = Call("crash", sv[p].pc, sv[p].config, BackupPath(sv[p].timestamp),
                    sv[p].timestamp)
    /\ UNCHANGED <<fs, now, pre, tree, asset, faults, rd, listed, slots, utc,
                   http, sessions, themes, hist>>

\* A request enters save(config); the directory as it is now is kept for
\* the record.
SaveEnter(p, config) ==
    /\ sv[p].pc = "idle"
    /\ sv' = [sv EXCEPT ![p] = [pc |-> "stamp", config |-> config,
                                timestamp |-> 0, offset |-> 0,
                                over |-> GetOutcome(fs).status = "ok"]]
    /\ pre' = fs
    /\ UNCHANGED <<fs, now, last, tree, asset, faults, rd, listed, slots, utc,
                   http, sessions, themes, hist>>

\* One save after another, until a crash cuts one short.
NextCrash ==
    \/ \E config \in Docs : SaveEnter("s1", config)
    \/ \E timestamp \in Clock : SaveStamp("s1", timestamp)
    \/ SaveCopy("s1")
    \/ SaveOpen("s1")
    \/ SaveDump("s1")
    \/ SaveReturn("s1")
    \/ Crash("s1")

SpecCrash == InitConc /\ [][NextCrash]_vars

\* The save crashed after shutil.copy had returned and before
\* open(config.json, "w"), and a current document existed when it began.
CrashedAfterCopy ==
    /\ sv["s1"].pc = "crashed"
    /\ last.op = "crash"
    /\ last.status = "open"
    /\ Exists(pre, CONFIG_FILE)

\* C18 (crash between backup and write): after a crash inside save that
\* comes when the backup copy is complete and the write of the current
\* document has not begun, the new backup is on disk, holding the document
\* as it was, and the current document is as it was before the call.
C18_CrashAfterBackup ==
    CrashedAfterCopy
    => /\ Exists(fs, last.name)
       /\ fs[last.name] = pre[CONFIG_FILE]
       /\ Exists(fs, CONFIG_FILE)
       /\ fs[CONFIG_FILE] = pre[CONFIG_FILE]

\* Such a crash during a save of another document than the current one.
C18_Witness ==
    /\ CrashedAfterCopy
    /\ JsonDump(last.doc) # pre[CONFIG_FILE]
    /\ ~Exists(pre, last.name)

----------------------------------------------------------------------------
(* A run of saves, and the listing of the backups it leaves *)

\* The store starts with no file at all, or with a current document and no
\* backup yet.
InitRun ==
    /\ fs \in {EmptyDir} \cup { WriteFile(EmptyDir, CONFIG_FILE, JsonDump(d)) :
                                d \in Docs }
    /\ now = 1
    /\ last = NoCall
    /\ pre = fs
    /\ tree = {}
    /\ asset = NoAssetCall
    /\ faults = 0
    /\ sv = [p \in Savers |-> IdleSaver]
    /\ rd = IdleReader
    /\ listed = <<>>
    /\ slots = NoSlots
    /\ utc = 0
    /\ http = NoRequest
    /\ sessions = NoSessions
    /\ themes = <<>>
    /\ hist = NoHistory

\* config_storage.save(config), the clock reading `timestamp`; on record are
\* the document the call replaced, when there was one, and whether every save
\* so far read a later clock value than the save before it.  The record of
\* replaced documents is dropped once two saves have read the same value.
SaveInRun(config, timestamp) ==
    LET out == SaveOutcome(fs, config, timestamp, NoFault)
        current == GetOutcome(fs)
        strict == hist.strict /\ timestamp > hist.ts
    IN  /\ timestamp \in Readings(now)
        /\ now' = timestamp
        /\ fs' = out.dir
        /\ last' = Call("save", out.status, config, out.name, timestamp)
        /\ pre' = fs
        /\ hist' = [replaced |-> IF ~strict THEN <<>>
                                 ELSE IF current.status = "ok"
                                 THEN Append(hist.replaced, current.doc)
                                 ELSE hist.replaced,
                    strict |-> strict,
                    ts |-> timestamp]
        /\ UNCHANGED <<tree, asset, faults, sv, rd, listed, slots, utc, http,
                       sessions, themes>>

NextRun ==
    \/ \E config \in Docs, timestamp \in Clock : SaveInRun(config, timestamp)
    \/ ListBackups

SpecRun == InitRun /\ [][NextRun]_vars

\* list_backups has just returned its entries, after saves that each read a
\* later clock value than the one before.
ListedAfterStrictRun ==
    /\ Listing
    /\ last.status = "ok"
    /\ hist.strict

\* C21 (backups are the history, newest first): after saves that each read a
\* strictly later clock value than the one before, list_backups returns one
\* entry per replaced document, and the i-th entry names the file that holds
\* the i-th most recently replaced document.
C21_BackupsAreHistory ==
    ListedAfterStrictRun
    => /\ Len(listed) = Len(hist.replaced)
       /\ \A i \in 1 .. Len(listed) :
              /\ Exists(fs, listed[i].filename)
              /\ JsonLoad(fs[listed[i].filename]).ok
              /\ DictEq(JsonLoad(fs[listed[i].filename]).doc,
                        hist.replaced[Len(hist.replaced) - i + 1])

\* Three saves in a row replaced two different documents, and the listing
\* has both backups.
C21_Witness ==
    /\ ListedAfterStrictRun
    /\ Len(listed) >= 2
    /\ Len(hist.replaced) >= 2
    /\ ~DictEq(hist.replaced[1], hist.replaced[2])

----------------------------------------------------------------------------
(* Restoring when backups are on disk and the current document is not *)

\* The names restore is asked for: those save gives a backup, and one that
\* only carries the prefix.
OrphanRestoreArgs == BackupNames \cup {UNNUMBERED_BACKUP}

\* Any of these files are in the directory, each holding the same document,
\* and config.json is not there (it was removed or never written here).
InitOrphan ==
    /\ fs \in { [n \in names |-> JsonDump(d)] :
                names \in SUBSET OrphanRestoreArgs, d \in Docs }
    /\ now = 1
    /\ last = NoCall
    /\ pre = fs
    /\ tree = {}
    /\ asset = NoAssetCall
    /\ faults = 0
    /\ sv = [p \in Savers |-> IdleSaver]
    /\ rd = IdleReader
    /\ listed = <<>>
    /\ slots = NoSlots
    /\ utc = 0
    /\ http = NoRequest
    /\ sessions = NoSessions
    /\ themes = <<>>
    /\ hist = NoHistory

NextOrphan ==
    \/ \E backup_filename \in OrphanRestoreArgs, timestamp \in Clock :
           Restore(backup_filename, timestamp)
    \/ \E config \in Docs, timestamp \in Clock : Save(config, timestamp)

SpecOrphan == InitOrphan /\ [][NextOrphan]_vars

\* The last call was restore of a name with the prefix, of a file that was
\* on disk, made when no current document was.
RestoredWithoutCurrent ==
    /\ last.op = "restore"
    /\ StartsWithBackupPrefix(last.name)
    /\ Exists(pre, last.name)
    /\ ~Exists(pre, CONFIG_FILE)

\* C22 (restore without a current document): restore of an existing,
\* validly named backup, called when config.json does not exist, fails with
\* NotFound and leaves the directory as it was: no current document, no new
\* backup, the named backup as before.
C22_RestoreNeedsCurrent ==
    RestoredWithoutCurrent
    => /\ last.status = "NotFound"
       /\ fs = pre
       /\ ~Exists(fs, CONFIG_FILE)
       /\ Backups(fs) = Backups(pre)
       /\ fs[last.name] = pre[last.name]

\* Such a restore, of a backup that save names, with another backup beside it.
C22_Witness ==
    /\ RestoredWithoutCurrent
    /\ last.name \in BackupNames
    /\ Cardinality(DOMAIN pre) >= 2

----------------------------------------------------------------------------
(* The store and the theme manager side by side *)

\* get_theme(theme_id): 404 when themes/<theme_id>/theme.json does not
\* exist, else json.load of that file.
GetThemeOutcome(t, theme_id) ==
    LET theme_path == Join(Join(THEMES_DIR, RelPath(<<theme_id>>)),
                           RelPath(<<"theme.json">>))
    IN  IF ~PathExists(t, theme_path)
        THEN [status |-> "NotFound", themes |-> <<>>]
        ELSE [status |-> "ok", themes |-> <<ThemeData(theme_path)>>]

GetTheme(theme_id) ==
    LET out == GetThemeOutcome(tree, theme_id)
    IN  /\ themes' = out.themes
        /\ asset' = AssetCall("get_theme", theme_id, NoPath, out.status, NoPath)
        /\ UNCHANGED <<fs, now, last, pre, tree, faults, sv, rd, listed, slots,
                       utc, http, sessions, hist>>

\* The themes root is missing, or holds a theme with its manifest and page
\* beside a directory without a manifest; the store holds no file yet.
InitFrame ==
    /\ fs = EmptyDir
    /\ now = 1
    /\ last = NoCall
    /\ pre = fs
    /\ tree \in { {}, {BEACH_MANIFEST, BEACH_INDEX, PLAIN_NOTES} }
    /\ asset = NoAssetCall
    /\ faults = 0
    /\ sv = [p \in Savers |-> IdleSaver]
    /\ rd = IdleReader
    /\ listed = <<>>
    /\ slots = NoSlots
    /\ utc = 0
    /\ http = NoRequest
    /\ sessions = NoSessions
    /\ themes = <<>>
    /\ hist = NoHistory

\* The calls that only read.
ReadOnlyCall ==
    \/ Get
    \/ ListBackups
    \/ ListThemes
    \/ \E theme_id \in {"beach", "ghost"} : GetTheme(theme_id)
    \/ \E theme_id \in {"beach", "ghost"} :
           ServeThemeFile(theme_id, RelPath(<<"index.html">>))

\* The calls of the store that write.
StoreCall ==
    \/ \E config \in {EmptyDoc, << <<"title", "A">> >>}, timestamp \in Clock :
           Save(config, timestamp)
    \/ \E timestamp \in Clock : Restore(BackupPath(1), timestamp)

NextFrame ==
    \/ ReadOnlyCall
    \/ StoreCall

SpecFrame == InitFrame /\ [][NextFrame]_vars

\* The files that differ between two directories, in existence or content.
Changed(a, b) ==
    { n \in DOMAIN a \cup DOMAIN b :
        ~(n \in DOMAIN a /\ n \in DOMAIN b /\ a[n] = b[n]) }

\* C23 (reads change nothing): get, list_backups, list_themes, get_theme and
\* get_theme_file_path, whether they return or raise, leave every file of
\* the store (the current document, the backups and their contents) and
\* every theme file as it was; and a save or a restore changes only
\* config.json and backup files, never a theme file.
C23_ReadsChangeNothing ==
    [][ /\ ReadOnlyCall => (fs' = fs /\ tree' = tree)
        /\ StoreCall => /\ tree' = tree
                        /\ Changed(fs, fs') \subseteq {CONFIG_FILE} \cup BackupNames
      ]_vars

\* A get and a get_theme have both returned, with a current document, a
\* backup and theme files on disk.
C23_Witness ==
    /\ last.op = "get"
    /\ last.status = "ok"
    /\ asset.op = "get_theme"
    /\ asset.status = "ok"
    /\ Backups(fs) # {}
    /\ tree # {}

====
